---- MODULE Spec2Model ----
(***************************************************************************)
(* A model of ms_deisotope/data_source/scan/base.py:                       *)
(*   - PrecursorInformation (extract, default, find_monoisotopic_peak,     *)
(*     correct_mz, equality and the pickling protocol),                    *)
(*   - the TICMethods / BasePeakMethods facades,                           *)
(*   - RawDataArrays (find_mz, also step by step, between_mz, addition     *)
(*     and equality),                                                      *)
(*   - ScanBunch (construction, get_scan_by_id, precursor_for, pack).      *)
(* m/z values and masses of the PrecursorInformation part are integers in  *)
(* units of 1e-4 mass units; the m/z values of the RawDataArrays part are  *)
(* integers in units of 0.05 mass units.                                   *)
(***************************************************************************)
EXTENDS Integers, Sequences, FiniteSets

VARIABLES
    pinfo,           \* the PrecursorInformation instance
    precursor_scan,  \* the precursor scan: its peak_set and polarity
    product_scan,    \* the product scan: its isolation window
    call,            \* the last call made on pinfo, its inputs and its result
    scan,            \* the object a TICMethods / BasePeakMethods facade wraps
    facades,         \* the facade objects obtained so far
    outcome,         \* the last facade call and what it returned or raised
    arrays,          \* a RawDataArrays instance
    found,           \* the last find_mz call on arrays and its result
    returned,        \* the last between_mz, + or == on arrays and its result
    frame,           \* the local variables of a find_mz call run step by step
    bunch,           \* a ScanBunch instance
    lookup           \* the last call made on bunch and its result

vars == <<pinfo, precursor_scan, product_scan, call, scan, facades, outcome,
          arrays, found, returned, frame, bunch, lookup>>
linkVars == <<pinfo, precursor_scan, product_scan, call>>
facadeVars == <<scan, facades, outcome>>
arrayVars == <<arrays, found, returned, frame>>
bunchVars == <<bunch, lookup>>

\* Python's None and an optional value: a sequence of length 0 or 1.
None == << >>
Some(x) == <<x>>

Abs(x) == IF x < 0 THEN -x ELSE x

----------------------------------------------------------------------------
(* Bounds and input values of the PrecursorInformation part.               *)

\* Largest charge magnitude the deconvolution collaborator's fits take.
MaxFitCharge == 2

DEFAULT_CHARGE_WHEN_NOT_RESOLVED == 1
\* The sentinel Constant("ChargeNotProvided"): equal to no integer charge.
ChargeNotProvided == 1000
\* Mass of the charge carrier, 1.0073 in units of 1e-4.
PROTON == 10073

LinkMzs == {5002500}
VendorIntensities == {1000}
FitIntensities == {1500}
\* 5002505 lies within 2e-5 (relative) of 5002500, 5003000 does not.
PeakMzs == {5002505, 5003000}
\* The m/z of the monoisotopic peaks handed to extract directly.
FitMzs == {5002505}
Charges == {ChargeNotProvided, 2, -2}
ScanIds == {"1", "7"}
\* The scans the bound source holds.
SourceScanIds == {"1"}
\* The charge_range arguments given explicitly, and the default of line 856.
ChargeRanges == {<<1, 2>>, <<-2, -1>>}
DefaultChargeRange == <<1, 8>>
OverrideCharges == {None, Some(3)}

----------------------------------------------------------------------------
(* Collaborators of PrecursorInformation.                                  *)

neutral_mass(mz, z) == (mz * Abs(z)) - (z * PROTON)

mass_charge_ratio(mass, z) == (mass + (z * PROTON)) \div Abs(z)

\* The peak of peaks nearest to mz if it lies within the relative tolerance
\* tol_num / tol_den of mz, else None.
has_peak(peaks, mz, tol_num, tol_den) ==
    LET near == {p \in peaks : Abs(p - mz) * tol_den <= tol_num * mz}
    IN  IF near = {} THEN None
        ELSE Some(CHOOSE p \in near :
                    \A r \in near : Abs(p - mz) < Abs(r - mz)
                                     \/ (Abs(p - mz) = Abs(r - mz) /\ p <= r))

\* source.get_scan_by_id(scan_id): the scan, or None for an id the source
\* does not hold.
source_get_scan_by_id(scan_id, the_scan) ==
    IF scan_id \in SourceScanIds THEN Some(the_scan) ELSE None

Min2(a, b) == IF a < b THEN a ELSE b
Max2(a, b) == IF a < b THEN b ELSE a

\* The charges deconvolute_peaks tries under charge_range.
ChargesIn(charge_range) ==
    {z \in (-MaxFitCharge..MaxFitCharge) \ {0} :
        /\ Min2(Abs(charge_range[1]), Abs(charge_range[2])) <= Abs(z)
        /\ Abs(z) <= Max2(Abs(charge_range[1]), Abs(charge_range[2]))
        /\ (z < 0) = (charge_range[1] < 0)}

\* What deconvolute_peaks may answer for the priority target ref_peak: no
\* fit, or a fitted peak of a charge of the range.
PriorityResults(ref_peak, charge_range) ==
    {None} \cup
    {Some([neutral_mass |-> neutral_mass(ref_peak, z), charge |-> z, intensity |-> i]) :
        z \in ChargesIn(charge_range), i \in FitIntensities}

AllFits ==
    {[neutral_mass |-> neutral_mass(m, z), charge |-> z, intensity |-> i] :
        m \in FitMzs, z \in (-MaxFitCharge..MaxFitCharge) \ {0}, i \in FitIntensities}

----------------------------------------------------------------------------
(* PrecursorInformation.                                                   *)

\* PrecursorInformation.neutral_mass
pi_neutral_mass(p) ==
    IF p.charge = ChargeNotProvided
    THEN neutral_mass(p.mz, DEFAULT_CHARGE_WHEN_NOT_RESOLVED)
    ELSE neutral_mass(p.mz, p.charge)

\* PrecursorInformation.extracted_mz
extracted_mz(p) ==
    IF p.extracted_charge = ChargeNotProvided
       \/ (p.extracted_charge = 0 /\ p.charge = ChargeNotProvided)
    THEN mass_charge_ratio(p.mz, DEFAULT_CHARGE_WHEN_NOT_RESOLVED)
    ELSE mass_charge_ratio(p.extracted_neutral_mass, p.extracted_charge)

extract(p, peak, override_charge) ==
    [p EXCEPT !.extracted_neutral_mass = peak.neutral_mass,
              !.extracted_charge = IF override_charge = None THEN peak.charge
                                   ELSE override_charge[1],
              !.extracted_intensity = peak.intensity,
              !.extracted_peak = Some(peak)]

default_IgnoreOrphan(p, orphan) ==
    IF p.charge = ChargeNotProvided
    THEN [p EXCEPT !.extracted_charge = ChargeNotProvided,
                   !.extracted_neutral_mass =
                        neutral_mass(p.mz, DEFAULT_CHARGE_WHEN_NOT_RESOLVED),
                   !.extracted_intensity = p.intensity,
                   !.defaulted = TRUE]
    ELSE [p EXCEPT !.extracted_charge = p.charge,
                   !.extracted_neutral_mass = pi_neutral_mass(p),
                   !.extracted_intensity = p.intensity,
                   !.defaulted = TRUE]

default_AlwaysOrphan(p, orphan) ==
    [default_IgnoreOrphan(p, orphan) EXCEPT !.orphan = TRUE]

default(p, orphan) ==
    LET q == IF p.charge = ChargeNotProvided
             THEN [p EXCEPT !.extracted_charge = ChargeNotProvided,
                            !.extracted_neutral_mass =
                                 neutral_mass(p.mz, DEFAULT_CHARGE_WHEN_NOT_RESOLVED),
                            !.extracted_intensity = p.intensity,
                            !.defaulted = TRUE]
             ELSE [p EXCEPT !.extracted_charge = p.charge,
                            !.extracted_neutral_mass = pi_neutral_mass(p),
                            !.extracted_intensity = p.intensity,
                            !.defaulted = TRUE]
    IN  IF orphan THEN [q EXCEPT !.orphan = TRUE] ELSE q

\* PrecursorInformation.precursor: the scan, None, or the AttributeError of
\* None.get_scan_by_id on a link no source is bound to.
precursor(p, the_scan) ==
    IF p.precursor_scan_id = None
    THEN [raised |-> "", scan |-> None]
    ELSE IF p.source = None
         THEN [raised |-> "AttributeError", scan |-> None]
         ELSE [raised |-> "",
               scan |-> source_get_scan_by_id(p.precursor_scan_id[1], the_scan)]

charge_range_for_Keep(polarity, charge_range) ==
    charge_range

\* Lines 856-859: the charge range handed to deconvolute_peaks.
charge_range_for(polarity, charge_range) ==
    IF polarity < 0 /\ Max2(charge_range[1], charge_range[2]) > 0
    THEN <<charge_range[1] * polarity, charge_range[2] * polarity>>
    ELSE charge_range

fit_rejected_IgnoreTrust(p, trust_charge_state, peak) ==
    p.charge # peak.charge

fit_rejected_Never(p, trust_charge_state, peak) ==
    FALSE

\* Line 884: a fit whose charge the trusted vendor charge contradicts.
fit_rejected(p, trust_charge_state, peak) ==
    trust_charge_state /\ p.charge # peak.charge

NoCall == [op |-> "none", trust_charge_state |-> FALSE, explicit |-> FALSE,
           resolved |-> FALSE, ref_peak |-> None, deconvoluted |-> FALSE,
           charge_range |-> None, fit |-> None,
           ret |-> "none", ret_mz |-> 0, ret_ok |-> FALSE, raised |-> "",
           requested |-> None, enforce |-> FALSE, nearest_mz |-> 0,
           other |-> None, restored |-> None]

InitLink ==
    /\ \E mz \in LinkMzs, intensity \in VendorIntensities, charge \in Charges,
          precursor_scan_id \in {None} \cup {Some(i) : i \in ScanIds},
          source \in {None, Some("source")} :
            pinfo = [mz |-> mz, intensity |-> intensity, charge |-> charge,
                     precursor_scan_id |-> precursor_scan_id, source |-> source,
                     extracted_neutral_mass |-> 0, extracted_charge |-> 0,
                     extracted_intensity |-> 0, peak |-> None,
                     extracted_peak |-> None, defaulted |-> FALSE,
                     orphan |-> FALSE, product_scan_id |-> None,
                     annotations |-> {}, coisolation |-> << >>]
    /\ \E peak_set \in {None} \cup {Some(s) : s \in SUBSET PeakMzs},
          polarity \in {1, -1} :
            precursor_scan = [peak_set |-> peak_set, polarity |-> polarity]
    /\ product_scan = None
    /\ call = NoCall

\* PrecursorInformation.bind
Bind ==
    /\ pinfo' = [pinfo EXCEPT !.source = Some("source")]
    /\ call' = [NoCall EXCEPT !.op = "bind"]
    /\ UNCHANGED <<precursor_scan, product_scan, facadeVars, arrayVars, bunchVars>>

\* PrecursorInformation.unbind
Unbind ==
    /\ pinfo' = [pinfo EXCEPT !.source = None]
    /\ call' = [NoCall EXCEPT !.op = "unbind"]
    /\ UNCHANGED <<precursor_scan, product_scan, facadeVars, arrayVars, bunchVars>>

Extract ==
    \E peak \in AllFits, override_charge \in OverrideCharges :
        /\ pinfo' = extract(pinfo, peak, override_charge)
        /\ call' = [NoCall EXCEPT !.op = "extract", !.fit = Some(peak)]
        /\ UNCHANGED <<precursor_scan, product_scan, facadeVars, arrayVars, bunchVars>>

Default ==
    \E orphan \in BOOLEAN :
        /\ pinfo' = default(pinfo, orphan)
        /\ call' = [NoCall EXCEPT !.op = "default"]
        /\ UNCHANGED <<precursor_scan, product_scan, facadeVars, arrayVars, bunchVars>>

\* PrecursorInformation.find_monoisotopic_peak(trust_charge_state,
\* precursor_scan, charge_range=...), charge_range None standing for a call
\* without the keyword. picked is what pick_peaks() leaves as
\* the peak set of a scan that had none; answer is what deconvolute_peaks
\* returns for the priority target.
FindMonoisotopicPeak ==
    /\ UNCHANGED <<product_scan, facadeVars, arrayVars, bunchVars>>
    /\ \E trust_charge_state \in BOOLEAN, explicit \in BOOLEAN,
       charge_range \in {None} \cup {Some(c) : c \in ChargeRanges},
       picked \in (IF precursor_scan.peak_set = None THEN SUBSET PeakMzs ELSE {{}}) :
        LET base == [NoCall EXCEPT !.op = "find_monoisotopic_peak",
                                   !.trust_charge_state = trust_charge_state,
                                   !.explicit = explicit]
            looked == IF explicit THEN [raised |-> "", scan |-> Some(precursor_scan)]
                      ELSE precursor(pinfo, precursor_scan)
        IN  IF looked.raised # ""
            THEN /\ call' = [base EXCEPT !.ret = "raise", !.raised = looked.raised]
                 /\ UNCHANGED <<pinfo, precursor_scan>>
            ELSE IF looked.scan = None
            THEN /\ call' = [base EXCEPT !.ret = "False"]
                 /\ UNCHANGED <<pinfo, precursor_scan>>
            ELSE
                LET peak_set == IF precursor_scan.peak_set = None THEN picked
                                ELSE precursor_scan.peak_set[1]
                    given == IF charge_range = None THEN DefaultChargeRange
                             ELSE charge_range[1]
                    range == charge_range_for(precursor_scan.polarity, given)
                    ref_peak == has_peak(peak_set, pinfo.mz, 2, 100000)
                    seen == [base EXCEPT !.resolved = TRUE, !.ref_peak = ref_peak]
                IN  /\ precursor_scan' = [precursor_scan EXCEPT !.peak_set = Some(peak_set)]
                    /\ IF ref_peak = None
                       THEN LET q == default(pinfo, TRUE)
                            IN  /\ pinfo' = q
                                /\ call' = [seen EXCEPT !.ret = "tuple",
                                                        !.ret_mz = extracted_mz(q),
                                                        !.ret_ok = FALSE]
                       ELSE \E answer \in PriorityResults(ref_peak[1], range) :
                            LET ran == [seen EXCEPT !.deconvoluted = TRUE,
                                                    !.requested = Some(given),
                                                    !.charge_range = Some(range),
                                                    !.fit = answer]
                                accepted == /\ answer # None
                                            /\ \/ pinfo.charge = ChargeNotProvided
                                               \/ ~fit_rejected(pinfo, trust_charge_state,
                                                                answer[1])
                                q == IF answer = None THEN default(pinfo, TRUE)
                                     ELSE IF accepted THEN extract(pinfo, answer[1], None)
                                     ELSE default(pinfo, FALSE)
                            IN  /\ pinfo' = q
                                /\ call' = [ran EXCEPT !.ret = "tuple",
                                                       !.ret_mz = extracted_mz(q),
                                                       !.ret_ok = accepted]

NextLink ==
    \/ Bind
    \/ Unbind
    \/ Extract
    \/ Default
    \/ FindMonoisotopicPeak

----------------------------------------------------------------------------
(* Properties of PrecursorInformation.find_monoisotopic_peak.              *)

FMP == "find_monoisotopic_peak"

\* p lies within the relative tolerance 2e-5 of mz.
Within2e5(p, mz) == Abs(p - mz) * 100000 <= 2 * mz

\* The last call resolved a precursor scan whose peak set holds no peak
\* within 2e-5 of the link's mz.
FmpNoPeak ==
    /\ call.op = FMP /\ call.resolved
    /\ \A p \in precursor_scan.peak_set[1] : ~Within2e5(p, pinfo.mz)

\* The last call resolved a precursor scan, found a reference peak and got a
\* fit for it from the deconvolution collaborator.
FmpFitted ==
    /\ call.op = FMP /\ call.resolved
    /\ \E p \in precursor_scan.peak_set[1] : Within2e5(p, pinfo.mz)
    /\ call.deconvoluted /\ call.fit # None

\* ... and the fit's charge contradicts a known, trusted vendor charge.
FmpMismatch ==
    /\ FmpFitted
    /\ call.trust_charge_state
    /\ pinfo.charge # ChargeNotProvided
    /\ call.fit[1].charge # pinfo.charge

\* The extracted values are the vendor-reported ones.
VendorDerived(p) ==
    /\ p.extracted_intensity = p.intensity
    /\ IF p.charge = ChargeNotProvided
       THEN /\ p.extracted_charge = ChargeNotProvided
            /\ p.extracted_neutral_mass = (p.mz * 1) - (1 * PROTON)
       ELSE /\ p.extracted_charge = p.charge
            /\ p.extracted_neutral_mass = (p.mz * Abs(p.charge)) - (p.charge * PROTON)

\* The extracted values are those of the fitted peak.
FitDerived(p, fit) ==
    /\ p.extracted_neutral_mass = fit.neutral_mass
    /\ p.extracted_charge = fit.charge
    /\ p.extracted_intensity = fit.intensity
    /\ p.extracted_peak = Some(fit)

\* C1: with a resolved precursor scan, a reference peak and a fit,
\* find_monoisotopic_peak returns (extracted_mz, True) exactly when the vendor
\* charge is ChargeNotProvided, or trust_charge_state is false, or the fit's
\* charge equals the vendor charge; the extracted values are then the fit's.
C1_AcceptedExactlyWhen ==
    FmpFitted =>
        /\ call.ret = "tuple"
        /\ call.ret_mz = extracted_mz(pinfo)
        /\ call.ret_ok <=> \/ pinfo.charge = ChargeNotProvided
                           \/ ~call.trust_charge_state
                           \/ call.fit[1].charge = pinfo.charge
        /\ call.ret_ok => FitDerived(pinfo, call.fit[1])

\* C1 witness: vendor charge 2, a doubly-charged fit, accepted.
C1_Witness ==
    /\ FmpFitted
    /\ pinfo.charge = 2 /\ call.fit[1].charge = 2
    /\ call.ret_ok /\ pinfo.extracted_charge = 2

\* C2: on a precursor scan with no peak within 2e-5 of mz,
\* find_monoisotopic_peak returns (extracted_mz, False), does not call the
\* deconvolution collaborator, and leaves orphan and defaulted true and the
\* extracted values vendor-derived.
C2_NoPeakDefaultsOrphan ==
    FmpNoPeak =>
        /\ call.ret = "tuple"
        /\ call.ret_mz = extracted_mz(pinfo)
        /\ ~call.ret_ok
        /\ ~call.deconvoluted
        /\ pinfo.orphan /\ pinfo.defaulted
        /\ VendorDerived(pinfo)

\* C2 witness: a call that found no reference peak has returned.
C2_Witness ==
    FmpNoPeak /\ call.ret = "tuple" /\ pinfo.orphan /\ pinfo.charge = 2

\* C3 as stated: after a trusted charge mismatch the result is
\* (extracted_mz, False) and the link has orphan == false, defaulted == true
\* and the vendor charge as extracted charge.
C3_MismatchLeavesNotOrphan ==
    FmpMismatch =>
        /\ call.ret = "tuple"
        /\ call.ret_mz = extracted_mz(pinfo)
        /\ ~call.ret_ok
        /\ ~pinfo.orphan /\ pinfo.defaulted
        /\ pinfo.extracted_charge = pinfo.charge

\* C3 amended: a call that ends in a trusted charge mismatch returns
\* (extracted_mz, False), sets defaulted, takes the vendor charge as extracted
\* charge, and leaves orphan as it was before the call.
C3_MismatchKeepsOrphan ==
    [][FmpMismatch' =>
        /\ call'.ret = "tuple"
        /\ call'.ret_mz = extracted_mz(pinfo')
        /\ ~call'.ret_ok
        /\ pinfo'.orphan = pinfo.orphan
        /\ pinfo'.defaulted
        /\ pinfo'.extracted_charge = pinfo'.charge
        /\ pinfo'.extracted_charge # call'.fit[1].charge]_vars

\* C3 witness: a rejected fit on a link that is no orphan.
C3_Witness ==
    FmpMismatch /\ ~pinfo.orphan /\ pinfo.defaulted /\ ~call.ret_ok

\* C4: without an explicit precursor_scan, an unresolvable precursor scan
\* makes find_monoisotopic_peak return a failure value and never raise, also
\* on a link whose precursor_scan_id is set while no source is bound.
C4_UnresolvedNeverRaises ==
    (call.op = FMP /\ ~call.explicit /\ ~call.resolved) =>
        call.raised = "" /\ call.ret = "False"

\* C5: defaulted == true implies that the extracted neutral mass, charge and
\* intensity are the vendor-derived values.
C5_DefaultedIsVendorDerived ==
    pinfo.defaulted => VendorDerived(pinfo)

\* C6 as stated: a find_monoisotopic_peak call that sets orphan found no
\* peak within 2e-5 of mz in the precursor scan.
C6_OrphanOnlyWithoutPeak ==
    [][(call'.op = FMP /\ ~pinfo.orphan /\ pinfo'.orphan) => FmpNoPeak']_vars

\* C6 amended: a find_monoisotopic_peak call that sets orphan either found no
\* peak within 2e-5 of mz in the precursor scan, or found one and got no fit
\* for it from the deconvolution collaborator.
C6_OrphanWithoutPeakOrFit ==
    [][(call'.op = FMP /\ ~pinfo.orphan /\ pinfo'.orphan) =>
        \/ FmpNoPeak'
        \/ (call'.resolved /\ call'.deconvoluted /\ call'.fit = None)]_vars

\* C6 witness: an orphan made by a call that had a reference peak and no fit.
C6_Witness ==
    /\ call.op = FMP /\ call.resolved /\ pinfo.orphan
    /\ call.ref_peak # None /\ call.deconvoluted /\ call.fit = None

\* C20: the charge range handed to the deconvolution collaborator has only
\* negative bounds whenever the precursor scan's polarity is negative and the
\* requested range (or the default (1, 8)) is positive, each bound the
\* negation of the requested one, and is the requested range unchanged
\* whenever the polarity is positive.
C20_NegatedForNegativePolarity ==
    (call.op = FMP /\ call.deconvoluted) =>
        LET requested == call.requested[1]
            handed == call.charge_range[1]
        IN  /\ (/\ precursor_scan.polarity < 0
                /\ requested[1] > 0 /\ requested[2] > 0)
               => /\ handed[1] < 0 /\ handed[2] < 0
                  /\ handed[1] = -requested[1]
                  /\ handed[2] = -requested[2]
            /\ precursor_scan.polarity > 0 => handed = requested

\* C20 witness: on a precursor scan of negative polarity the default range
\* (1, 8) was handed over as (-1, -8).
C20_Witness ==
    /\ call.op = FMP /\ call.deconvoluted
    /\ precursor_scan.polarity < 0
    /\ call.requested = Some(<<1, 8>>)
    /\ call.charge_range = Some(<<-1, -8>>)

----------------------------------------------------------------------------
(* TICMethods and BasePeakMethods.                                         *)

\* Largest number of peaks (or raw points) a representation of the scan
\* holds, and largest length of the scan taken as a generic sequence.
MaxPeaks == 2

\* An attribute of the wrapped object: missing, None, or a value.
Missing == [has |-> "missing", val |-> << >>]
IsNone == [has |-> "none", val |-> << >>]
Value(v) == [has |-> "value", val |-> v]

\* Intensity of the k-th peak of each representation: the representations
\* differ in every reduction.
TierIntensity(tier, k) ==
    CASE tier = "deconvoluted" -> 12 - (3 * k)
      [] tier = "centroided" -> 30 - (4 * k)
      [] tier = "raw" -> 40 + (5 * k)
      [] OTHER -> 100 - k

PeaksOf(tier, n) ==
    [k \in 1..n |-> [mz |-> 100 * k, intensity |-> TierIntensity(tier, k)]]

AttrValues(tier) ==
    {Missing, IsNone} \cup {Value(PeaksOf(tier, n)) : n \in 0..MaxPeaks}

\* The elements list(scan) yields: PeakLike objects, Numbers, or neither.
Kinds == {"peak", "number", "other"}
PointsOf(kinds) ==
    [k \in 1..Len(kinds) |->
        [kind |-> kinds[k], mz |-> 100 * k, intensity |-> TierIntensity("points", k)]]
KindSeqs == UNION {[1..n -> Kinds] : n \in 0..MaxPeaks}
PointValues ==
    {[iterable |-> FALSE, elems |-> << >>]}
    \cup {[iterable |-> TRUE, elems |-> PointsOf(ks)] : ks \in KindSeqs}

\* The last operation on the scan and, for a facade call, its result.
NoOutcome == [op |-> "none", kind |-> "none", tier |-> "", total |-> 0,
              peak |-> None, raised |-> ""]

InitFacade ==
    /\ \E d \in AttrValues("deconvoluted"), c \in AttrValues("centroided"),
          r \in AttrValues("raw"), pts \in PointValues :
            scan = [deconvoluted_peak_set |-> d, peak_set |-> c, arrays |-> r,
                    points |-> pts]
    /\ facades = {}
    /\ outcome = NoOutcome

Returned(tier, total, peak) ==
    [kind |-> "value", tier |-> tier, total |-> total, peak |-> peak, raised |-> ""]
ReturnedNone(tier) ==
    [kind |-> "None", tier |-> tier, total |-> 0, peak |-> None, raised |-> ""]
Raised(error) ==
    [kind |-> "raise", tier |-> "", total |-> 0, peak |-> None, raised |-> error]

\* The exceptions each try block of _guess catches.
Caught(r) == r.raised \in {"AttributeError", "TypeError"}

RECURSIVE SumIntensity(_)
SumIntensity(peaks) ==
    IF peaks = << >> THEN 0
    ELSE peaks[1].intensity + SumIntensity(Tail(peaks))

\* max(peaks, key=intensity) and np.argmax: the first of the largest.
ArgMax(peaks) ==
    CHOOSE i \in 1..Len(peaks) :
        \A j \in 1..Len(peaks) :
            /\ peaks[j].intensity <= peaks[i].intensity
            /\ j < i => peaks[j].intensity < peaks[i].intensity

AsPeak(x) == [mz |-> x.mz, intensity |-> x.intensity]

\* TICMethods._peak_set_tic on the value of a present attribute: iterating
\* None is a TypeError.
tic_peak_set(tier, attr) ==
    IF attr.has = "none" THEN Raised("TypeError")
    ELSE Returned(tier, SumIntensity(attr.val), None)

tic_deconvoluted(s) ==
    IF s.deconvoluted_peak_set.has = "missing" THEN Raised("AttributeError")
    ELSE tic_peak_set("deconvoluted", s.deconvoluted_peak_set)

tic_centroided(s) ==
    IF s.peak_set.has = "missing" THEN Raised("AttributeError")
    ELSE tic_peak_set("centroided", s.peak_set)

\* TICMethods.raw: None.intensity is an AttributeError.
tic_raw(s) ==
    IF s.arrays.has \in {"missing", "none"} THEN Raised("AttributeError")
    ELSE Returned("raw", SumIntensity(s.arrays.val), None)

\* Lines 935-948: the scan as a generic sequence.
tic_points(s) ==
    IF ~s.points.iterable THEN Raised("TypeError")
    ELSE LET points == s.points.elems
         IN  IF points = << >> THEN Raised("TypeError")
             ELSE IF points[1].kind = "peak"
             THEN IF \A k \in 1..Len(points) : points[k].kind = "peak"
                  THEN Returned("peak_sequence", SumIntensity(points), None)
                  ELSE Raised("AttributeError")
             ELSE IF points[1].kind = "number"
             THEN IF \A k \in 1..Len(points) : points[k].kind = "number"
                  THEN Returned("numbers", SumIntensity(points), None)
                  ELSE Raised("TypeError")
             ELSE Raised("TypeError")

\* TICMethods._guess
tic_guess(s) ==
    IF ~Caught(tic_deconvoluted(s)) THEN tic_deconvoluted(s)
    ELSE IF ~Caught(tic_centroided(s)) THEN tic_centroided(s)
    ELSE IF ~Caught(tic_raw(s)) THEN tic_raw(s)
    ELSE tic_points(s)

\* BasePeakMethods._peak_set_bp on the value of a present attribute: None
\* and an empty peak set both answer None.
bp_peak_set(tier, attr) ==
    IF attr.has = "none" \/ attr.val = << >> THEN ReturnedNone(tier)
    ELSE Returned(tier, 0, Some(AsPeak(attr.val[ArgMax(attr.val)])))

bp_deconvoluted(s) ==
    IF s.deconvoluted_peak_set.has = "missing" THEN Raised("AttributeError")
    ELSE bp_peak_set("deconvoluted", s.deconvoluted_peak_set)

bp_centroided(s) ==
    IF s.peak_set.has = "missing" THEN Raised("AttributeError")
    ELSE bp_peak_set("centroided", s.peak_set)

\* BasePeakMethods.raw: np.argmax of an empty array is a ValueError.
bp_raw(s) ==
    IF s.arrays.has \in {"missing", "none"} THEN Raised("AttributeError")
    ELSE IF s.arrays.val = << >> THEN Raised("ValueError")
    ELSE Returned("raw", 0, Some(AsPeak(s.arrays.val[ArgMax(s.arrays.val)])))

\* Lines 1021-1031: the scan as a generic sequence.
bp_points(s) ==
    IF ~s.points.iterable THEN Raised("TypeError")
    ELSE LET points == s.points.elems
         IN  IF points = << >> THEN Raised("TypeError")
             ELSE IF points[1].kind = "peak"
             THEN IF \A k \in 1..Len(points) : points[k].kind = "peak"
                  THEN Returned("peak_sequence", 0, Some(AsPeak(points[ArgMax(points)])))
                  ELSE Raised("AttributeError")
             ELSE Raised("TypeError")

\* BasePeakMethods._guess
bp_guess(s) ==
    IF ~Caught(bp_deconvoluted(s)) THEN bp_deconvoluted(s)
    ELSE IF ~Caught(bp_centroided(s)) THEN bp_centroided(s)
    ELSE IF ~Caught(bp_raw(s)) THEN bp_raw(s)
    ELSE bp_points(s)

Called(op, r) ==
    [op |-> op, kind |-> r.kind, tier |-> r.tier, total |-> r.total,
     peak |-> r.peak, raised |-> r.raised]

\* ScanBase.tic: a TICMethods holding a reference to the scan.
GetTic ==
    /\ facades' = facades \cup {"tic"}
    /\ UNCHANGED <<scan, outcome, linkVars, arrayVars, bunchVars>>

\* ScanBase.base_peak: a BasePeakMethods holding a reference to the scan.
GetBasePeak ==
    /\ facades' = facades \cup {"base_peak"}
    /\ UNCHANGED <<scan, outcome, linkVars, arrayVars, bunchVars>>

\* scan.pick_peaks(): centroids the raw arrays into a peak set.
PickPeaks ==
    /\ scan.arrays.has = "value"
    /\ scan.peak_set.has # "missing"
    /\ \E n \in 0..Len(scan.arrays.val) :
        scan' = [scan EXCEPT !.peak_set = Value(PeaksOf("centroided", n))]
    /\ outcome' = [NoOutcome EXCEPT !.op = "pick_peaks"]
    /\ UNCHANGED <<facades, linkVars, arrayVars, bunchVars>>

\* scan.deconvolute(): fits the picked peaks into a deconvoluted peak set.
Deconvolute ==
    /\ scan.peak_set.has = "value"
    /\ scan.deconvoluted_peak_set.has # "missing"
    /\ \E n \in 0..Len(scan.peak_set.val) :
        scan' = [scan EXCEPT !.deconvoluted_peak_set = Value(PeaksOf("deconvoluted", n))]
    /\ outcome' = [NoOutcome EXCEPT !.op = "deconvolute"]
    /\ UNCHANGED <<facades, linkVars, arrayVars, bunchVars>>

\* TICMethods.__call__ on a facade obtained earlier.
CallTic ==
    /\ "tic" \in facades
    /\ outcome' = Called("tic", tic_guess(scan))
    /\ UNCHANGED <<scan, facades, linkVars, arrayVars, bunchVars>>

\* BasePeakMethods.__call__ on a facade obtained earlier.
CallBasePeak ==
    /\ "base_peak" \in facades
    /\ outcome' = Called("base_peak", bp_guess(scan))
    /\ UNCHANGED <<scan, facades, linkVars, arrayVars, bunchVars>>

NextFacade ==
    \/ GetTic
    \/ GetBasePeak
    \/ PickPeaks
    \/ Deconvolute
    \/ CallTic
    \/ CallBasePeak

----------------------------------------------------------------------------
(* Properties of the facades.                                              *)

Present(attr) == attr.has = "value"

\* The highest-priority representation the scan holds, "" if none.
HighestTier(s) ==
    IF Present(s.deconvoluted_peak_set) THEN "deconvoluted"
    ELSE IF Present(s.peak_set) THEN "centroided"
    ELSE IF Present(s.arrays) THEN "raw"
    ELSE ""

TierPeaks(s) ==
    IF Present(s.deconvoluted_peak_set) THEN s.deconvoluted_peak_set.val
    ELSE IF Present(s.peak_set) THEN s.peak_set.val
    ELSE s.arrays.val

\* The reduction of each facade over a sequence of peaks or points.
ReductionIs(o, peaks) ==
    IF o.op = "tic"
    THEN o.kind = "value" /\ o.total = SumIntensity(peaks)
    ELSE IF peaks = << >> THEN o.kind = "None"
    ELSE /\ o.kind = "value"
         /\ o.peak # None
         /\ \A k \in 1..Len(peaks) : peaks[k].intensity <= o.peak[1].intensity
         /\ \E k \in 1..Len(peaks) : AsPeak(peaks[k]) = o.peak[1]

\* C7: for both facades the tier-aware call returns the reduction over the
\* highest-priority representation present at call time (deconvoluted, then
\* centroided, then raw), skipping a tier whose attribute is missing or None.
C7_HighestPresentTier ==
    (outcome.op \in {"tic", "base_peak"} /\ HighestTier(scan) # "") =>
        /\ ReductionIs(outcome, TierPeaks(scan))
        /\ TierPeaks(scan) # << >> => outcome.tier = HighestTier(scan)

AllOfKind(points, kind) ==
    points # << >> /\ \A k \in 1..Len(points) : points[k].kind = kind

\* The wrapped object is a plain sequence: it has none of the attributes
\* arrays, peak_set and deconvoluted_peak_set, so that no tier applies.
PlainSequence(s) ==
    /\ s.deconvoluted_peak_set.has = "missing"
    /\ s.peak_set.has = "missing"
    /\ s.arrays.has = "missing"
    /\ s.points.iterable

\* C8: for both facades, when none of the three tiers applies the scan is
\* reduced as a generic sequence: as peaks if its elements are peak-like,
\* numerically if they are plain numbers, and any other element type or an
\* empty sequence fails with a TypeError. (Stated on the objects that have
\* none of the three attributes, where both facades reach the fallback.)
C8_GenericSequence ==
    (outcome.op \in {"tic", "base_peak"} /\ PlainSequence(scan)) =>
        LET points == scan.points.elems
        IN  /\ AllOfKind(points, "peak") =>
                outcome.tier = "peak_sequence" /\ ReductionIs(outcome, points)
            /\ AllOfKind(points, "number") =>
                outcome.tier = "numbers" /\ outcome.kind = "value"
            /\ (points = << >> \/ AllOfKind(points, "other")) =>
                outcome.raised = "TypeError"

----------------------------------------------------------------------------
(* RawDataArrays.find_mz. m/z values are integers in units of 0.05.        *)

\* Largest length of the m/z array, and largest m/z value and query.
MaxLen == 4
MaxMz == 5

\* The tolerance 0.1 of line 239, in units of 0.05.
Tolerance == 2

ArrayIntensities == {1}

IsSorted(mz) == \A i \in 1..(Len(mz) - 1) : mz[i] <= mz[i + 1]

InitArrays ==
    /\ \E n \in 0..MaxLen :
        \E mz \in [1..n -> 0..MaxMz], intensity \in [1..n -> ArrayIntensities] :
            arrays = [mz |-> mz, intensity |-> intensity]
    /\ found = [op |-> "none", mz |-> 0, index |-> 0, mid |-> 0, branch |-> ""]
    /\ returned = None
    /\ frame = None

scan_down_Skip(mz, query, i, best) == best

\* Lines 242-252: from index i (zero-based) downwards while the point is
\* less than the tolerance below the query, keeping the nearest point.
RECURSIVE scan_down(_, _, _, _)
scan_down(mz, query, i, best) ==
    IF i < 0 THEN best
    ELSE LET err == mz[i + 1] - query
         IN  IF err <= -Tolerance THEN best
             ELSE scan_down(mz, query, i - 1,
                            IF Abs(err) < best.err
                            THEN [index |-> i, err |-> Abs(err)]
                            ELSE best)

\* Lines 253-263: from index i upwards while the point is less than the
\* tolerance above the query, keeping the nearest point.
RECURSIVE scan_up(_, _, _, _)
scan_up(mz, query, i, best) ==
    IF i >= Len(mz) THEN best
    ELSE LET err == mz[i + 1] - query
         IN  IF err >= Tolerance THEN best
             ELSE scan_up(mz, query, i + 1,
                          IF Abs(err) < best.err
                          THEN [index |-> i, err |-> Abs(err)]
                          ELSE best)

\* Lines 235-271: the loop of find_mz on the window lo..hi.
RECURSIVE search(_, _, _, _)
search(mz, query, lo, hi) ==
    IF hi = lo THEN [index |-> 0, mid |-> 0, branch |-> "exhausted"]
    ELSE LET mid == (hi + lo) \div 2
             err == mz[mid + 1] - query
         IN  IF Abs(err) < Tolerance
             THEN LET first == [index |-> mid, err |-> Abs(err)]
                      below == scan_down(mz, query, mid, first)
                      best == scan_up(mz, query, mid, below)
                  IN  [index |-> best.index, mid |-> mid, branch |-> "tolerance"]
             ELSE IF hi - lo = 1
             THEN [index |-> mid, mid |-> mid, branch |-> "collapsed"]
             ELSE IF err > 0 THEN search(mz, query, lo, mid)
             ELSE search(mz, query, mid, hi)

\* RawDataArrays.find_mz
find_mz(a, query) == search(a.mz, query, 0, Len(a.mz))

FindMz ==
    /\ \E query \in 0..MaxMz :
        LET r == find_mz(arrays, query)
        IN  found' = [op |-> "find_mz", mz |-> query, index |-> r.index,
                      mid |-> r.mid, branch |-> r.branch]
    /\ UNCHANGED <<arrays, returned, frame, linkVars, facadeVars, bunchVars>>

NextArrays ==
    \/ FindMz

----------------------------------------------------------------------------
(* Properties of RawDataArrays.find_mz.                                    *)

Distance(mz, i, query) == Abs(mz[i] - query)

\* C9: on a non-empty m/z array sorted ascending, find_mz returns the index
\* of the position whose m/z is closest to the query.
C9_ReturnsNearestIndex ==
    (found.op = "find_mz" /\ arrays.mz # << >> /\ IsSorted(arrays.mz)) =>
        /\ found.index \in 0..(Len(arrays.mz) - 1)
        /\ \A i \in 1..Len(arrays.mz) :
            Distance(arrays.mz, found.index + 1, found.mz)
                <= Distance(arrays.mz, i, found.mz)

\* The last find_mz call ran on a sorted array, with a query within the
\* array's range, and its binary search landed on a point less than 0.1 from
\* the query.
LandedInTolerance ==
    /\ found.op = "find_mz"
    /\ found.branch = "tolerance"
    /\ IsSorted(arrays.mz)
    /\ arrays.mz[1] <= found.mz /\ found.mz <= arrays.mz[Len(arrays.mz)]

\* C10: on a sorted array and a query within its range, whenever the binary
\* search lands on a point less than 0.1 from the query, the returned index
\* minimises the distance to the query among all indices whose m/z is within
\* 0.1 of the query.
C10_NearestWithinTolerance ==
    LandedInTolerance =>
        /\ found.index \in 0..(Len(arrays.mz) - 1)
        /\ Distance(arrays.mz, found.index + 1, found.mz) < Tolerance
        /\ \A i \in 1..Len(arrays.mz) :
            Distance(arrays.mz, i, found.mz) < Tolerance =>
                Distance(arrays.mz, found.index + 1, found.mz)
                    <= Distance(arrays.mz, i, found.mz)

\* C10 witness: the search landed on a point within 0.1 of the query and the
\* scan outwards moved to a nearer point.
C10_Witness ==
    /\ LandedInTolerance
    /\ found.index # found.mid
    /\ Distance(arrays.mz, found.index + 1, found.mz)
        < Distance(arrays.mz, found.mid + 1, found.mz)

----------------------------------------------------------------------------
(* RawDataArrays.find_mz step by step: one action per iteration of each of *)
(* its loops. The arrays of this part are sorted or not.                   *)

\* Longest array of this part.
MaxSearchLen == 4

\* 0 and 1 lie within 0.1 of each other, 4 of neither.
SearchMzs == {0, 1, 4}
SearchQueries == {0, 2, 5}

NoFrame == [pc |-> "idle", mz |-> 0, n |-> 0, lo |-> 0, hi |-> 0, mid |-> 0,
            i |-> 0, best_index |-> 0, best_err |-> 0, ret |-> 0,
            narrowed |-> FALSE]

InitSearch ==
    /\ \E n \in 0..MaxSearchLen :
        \E mz \in [1..n -> SearchMzs], intensity \in [1..n -> ArrayIntensities] :
            arrays = [mz |-> mz, intensity |-> intensity]
    /\ found = None
    /\ returned = None
    /\ frame = NoFrame

midpoint_Low(hi, lo) == lo

\* Line 236
midpoint(hi, lo) == (hi + lo) \div 2

\* Lines 231-233: a call of find_mz(query) starts.
Enter ==
    /\ frame.pc \in {"idle", "done"}
    /\ \E query \in SearchQueries :
        frame' = [NoFrame EXCEPT !.pc = "while", !.mz = query,
                                 !.n = Len(arrays.mz), !.hi = Len(arrays.mz)]
    /\ UNCHANGED <<arrays, found, returned, linkVars, facadeVars, bunchVars>>

\* Lines 235-241 and 265-271: the test of the outer loop and one iteration
\* of it, up to the first of the two scans.
WhileStep ==
    /\ frame.pc = "while"
    /\ IF frame.hi = frame.lo
       THEN frame' = [frame EXCEPT !.pc = "done", !.ret = 0]
       ELSE LET mid == midpoint(frame.hi, frame.lo)
                err == arrays.mz[mid + 1] - frame.mz
            IN  IF Abs(err) < Tolerance
                THEN frame' = [frame EXCEPT !.pc = "down", !.mid = mid, !.i = mid,
                                            !.best_index = mid,
                                            !.best_err = Abs(err)]
                ELSE IF frame.hi - frame.lo = 1
                THEN frame' = [frame EXCEPT !.pc = "done", !.mid = mid, !.ret = mid]
                ELSE IF err > 0
                THEN frame' = [frame EXCEPT !.mid = mid, !.hi = mid,
                                            !.narrowed = TRUE]
                ELSE frame' = [frame EXCEPT !.mid = mid, !.lo = mid,
                                            !.narrowed = TRUE]
    /\ UNCHANGED <<arrays, found, returned, linkVars, facadeVars, bunchVars>>

\* Lines 242-252: the test of the downward scan and one iteration of it;
\* when it ends the upward scan starts at mid.
DownStep ==
    /\ frame.pc = "down"
    /\ IF frame.i >= 0
       THEN LET err == arrays.mz[frame.i + 1] - frame.mz
            IN  IF err <= -Tolerance
                THEN frame' = [frame EXCEPT !.pc = "up", !.i = frame.mid]
                ELSE IF Abs(err) < frame.best_err
                THEN frame' = [frame EXCEPT !.best_err = Abs(err),
                                            !.best_index = frame.i,
                                            !.i = @ - 1]
                ELSE frame' = [frame EXCEPT !.i = @ - 1]
       ELSE frame' = [frame EXCEPT !.pc = "up", !.i = frame.mid]
    /\ UNCHANGED <<arrays, found, returned, linkVars, facadeVars, bunchVars>>

\* Lines 253-264: the test of the upward scan and one iteration of it; when
\* it ends best_index is returned.
UpStep ==
    /\ frame.pc = "up"
    /\ IF frame.i < frame.n
       THEN LET err == arrays.mz[frame.i + 1] - frame.mz
            IN  IF err >= Tolerance
                THEN frame' = [frame EXCEPT !.pc = "done", !.ret = frame.best_index]
                ELSE IF Abs(err) < frame.best_err
                THEN frame' = [frame EXCEPT !.best_err = Abs(err),
                                            !.best_index = frame.i,
                                            !.i = @ + 1]
                ELSE frame' = [frame EXCEPT !.i = @ + 1]
       ELSE frame' = [frame EXCEPT !.pc = "done", !.ret = frame.best_index]
    /\ UNCHANGED <<arrays, found, returned, linkVars, facadeVars, bunchVars>>

NextSearch ==
    \/ Enter
    \/ WhileStep
    \/ DownStep
    \/ UpStep

\* A call that has started keeps running: the interpreter takes the next
\* step of the loop it is in.
Running == WhileStep \/ DownStep \/ UpStep

----------------------------------------------------------------------------
(* Properties of find_mz step by step.                                     *)

\* C21: find_mz terminates for every m/z array, sorted or not, of any
\* length, and every query, and its result is an index in 0..n-1 for a
\* non-empty array of length n and 0 for an empty array.
C21_TerminatesInRange ==
    /\ [](frame.pc = "done" =>
            IF Len(arrays.mz) = 0 THEN frame.ret = 0
            ELSE frame.ret \in 0..(Len(arrays.mz) - 1))
    /\ (frame.pc \in {"while", "down", "up"}) ~> (frame.pc = "done")

\* C21 witness: on an unsorted array of the greatest length a call narrowed
\* its window, scanned around a point within 0.1 of the query and returned
\* the index of a nearer point.
C21_Witness ==
    /\ frame.pc = "done"
    /\ Len(arrays.mz) = MaxSearchLen
    /\ ~IsSorted(arrays.mz)
    /\ frame.narrowed
    /\ frame.best_err = Abs(arrays.mz[frame.ret + 1] - frame.mz)
    /\ frame.ret # frame.mid

----------------------------------------------------------------------------
(* RawDataArrays: between_mz, + and ==. The arrays of this part are sorted *)
(* by m/z; m/z and intensity are integers in units of 0.05.                *)

\* Longest array of this part.
MaxRawLen == 2

\* 2 and 3 lie within 0.1 of each other, 0 and 2 do not.
RawMzs == {0, 2, 3}
RawQueries == {0, 1, 2, 3}
RawIntensities == {1, 2}
OtherIntensities == {2}

\* The instances with sorted m/z in RawMzs and intensities in the set given.
RawArrays(intensities) ==
    UNION {{[mz |-> mz, intensity |-> intensity] :
                mz \in {m \in [1..n -> RawMzs] : IsSorted(m)},
                intensity \in [1..n -> intensities]} : n \in 0..MaxRawLen}

\* The operands == is called with: None, a number, or another instance.
NoneOperand == [kind |-> "None"]
NumberOperand == [kind |-> "number"]
ArraysOperand(a) == [kind |-> "arrays", mz |-> a.mz, intensity |-> a.intensity]

NoReturn == [op |-> "none", low |-> 0, high |-> 0, other |-> None,
             ret |-> None, raised |-> ""]

InitRaw ==
    /\ arrays \in RawArrays(RawIntensities)
    /\ found = None
    /\ returned = NoReturn
    /\ frame = None

\* The Python slice s[i:j] for zero-based 0 <= i, 0 <= j.
Slice(s, i, j) == SubSeq(s, i + 1, Min2(j, Len(s)))

\* RawDataArrays.between_mz: the returned instance, or the IndexError of
\* self.mz[i] on an empty array.
between_mz(a, low, high) ==
    LET i == find_mz(a, low).index
        j == find_mz(a, high).index + 1
    IN  IF i >= Len(a.mz)
        THEN [raised |-> "IndexError", ret |-> None]
        ELSE LET first == IF ~(low <= a.mz[i + 1] /\ a.mz[i + 1] <= high)
                          THEN i + 1 ELSE i
             IN  [raised |-> "",
                  ret |-> Some([mz |-> Slice(a.mz, first, j),
                                intensity |-> Slice(a.intensity, first, j)])]

BetweenMz ==
    /\ \E low \in RawQueries, high \in RawQueries :
        /\ low <= high
        /\ LET r == between_mz(arrays, low, high)
           IN  returned' = [NoReturn EXCEPT !.op = "between_mz", !.low = low,
                                            !.high = high, !.ret = r.ret,
                                            !.raised = r.raised]
    /\ UNCHANGED <<arrays, found, frame, linkVars, facadeVars, bunchVars>>

\* numpy.isclose(x, y) with rtol = 1e-5 and atol = 1e-8, in units of 0.05.
isclose(x, y) == Abs(x - y) * 100000000 <= 20 + (1000 * Abs(y))

\* numpy.allclose(x, y): "ValueError" when the shapes do not broadcast; an
\* array of one element broadcasts against any length.
allclose(x, y) ==
    IF Len(x) = Len(y)
    THEN IF \A i \in 1..Len(x) : isclose(x[i], y[i]) THEN "True" ELSE "False"
    ELSE IF Len(x) = 1
    THEN IF \A i \in 1..Len(y) : isclose(x[1], y[i]) THEN "True" ELSE "False"
    ELSE IF Len(y) = 1
    THEN IF \A i \in 1..Len(x) : isclose(x[i], y[1]) THEN "True" ELSE "False"
    ELSE "ValueError"

\* RawDataArrays.__eq__: other[0] of None or of a number is a TypeError,
\* which the handler of ValueError does not catch.
raw_eq(a, other) ==
    IF other.kind # "arrays"
    THEN [raised |-> "TypeError", ret |-> None]
    ELSE LET first == allclose(a.mz, other.mz)
             second == allclose(a.intensity, other.intensity)
         IN  IF first = "ValueError" THEN [raised |-> "", ret |-> Some(FALSE)]
             ELSE IF first = "False" THEN [raised |-> "", ret |-> Some(FALSE)]
             ELSE IF second = "ValueError" THEN [raised |-> "", ret |-> Some(FALSE)]
             ELSE [raised |-> "", ret |-> Some(second = "True")]

Eq ==
    /\ \E other \in {NoneOperand, NumberOperand}
                    \cup {ArraysOperand(a) : a \in RawArrays(OtherIntensities)} :
        LET r == raw_eq(arrays, other)
        IN  returned' = [NoReturn EXCEPT !.op = "eq", !.other = Some(other),
                                            !.ret = r.ret, !.raised = r.raised]
    /\ UNCHANGED <<arrays, found, frame, linkVars, facadeVars, bunchVars>>

\* The elements of the set S of integers in ascending order.
RECURSIVE SortedSeq(_)
SortedSeq(S) ==
    IF S = {} THEN << >>
    ELSE LET least == CHOOSE x \in S : \A y \in S : x <= y
         IN  <<least>> \o SortedSeq(S \ {least})

\* The summed intensity of the points of a whose m/z is x.
RECURSIVE IntensityAt(_, _, _)
IntensityAt(a, x, i) ==
    IF i > Len(a.mz) THEN 0
    ELSE (IF a.mz[i] = x THEN a.intensity[i] ELSE 0) + IntensityAt(a, x, i + 1)

\* average_signal([a, b]): both arrays on a common axis, their intensities
\* averaged. The average is kept in half units: doubling it is the sum.
average_signal(a, b) ==
    LET axis == SortedSeq({a.mz[i] : i \in 1..Len(a.mz)} \cup
                          {b.mz[i] : i \in 1..Len(b.mz)})
    IN  [mz |-> axis,
         halves |-> [i \in 1..Len(axis) |->
                        IntensityAt(a, axis[i], 1) + IntensityAt(b, axis[i], 1)]]

raw_add_KeepSelf(a, other) ==
    [mz |-> a.mz, intensity |-> a.intensity]

\* RawDataArrays.__add__
raw_add(a, other) ==
    IF Len(a.mz) = Len(other.mz) /\ allclose(a.mz, other.mz) = "True"
    THEN [mz |-> a.mz,
          intensity |-> [i \in 1..Len(a.intensity) |->
                            a.intensity[i] + other.intensity[i]]]
    ELSE LET averaged == average_signal(a, other)
         IN  [mz |-> averaged.mz, intensity |-> averaged.halves]

Add ==
    /\ \E b \in RawArrays(OtherIntensities) :
        returned' = [NoReturn EXCEPT !.op = "add",
                                     !.other = Some(ArraysOperand(b)),
                                     !.ret = Some(raw_add(arrays, b))]
    /\ UNCHANGED <<arrays, found, frame, linkVars, facadeVars, bunchVars>>

NextRaw ==
    \/ BetweenMz
    \/ Eq
    \/ Add

----------------------------------------------------------------------------
(* Properties of RawDataArrays.between_mz, + and ==.                       *)

\* C11: on a sorted array (duplicates allowed) and low <= high, between_mz
\* returns only points whose m/z lies in [low, high], and when low and high
\* both equal the m/z of a point of the array it returns exactly one point,
\* with that m/z.
C11_SliceWithinBounds ==
    (returned.op = "between_mz" /\ returned.raised = "") =>
        LET ret == returned.ret[1]
        IN  /\ \A k \in 1..Len(ret.mz) :
                returned.low <= ret.mz[k] /\ ret.mz[k] <= returned.high
            /\ (/\ returned.low = returned.high
                /\ \E k \in 1..Len(arrays.mz) : arrays.mz[k] = returned.low)
               => ret.mz = <<returned.low>>

\* The last call added to arrays an instance of the same length and with the
\* identical m/z axis.
AddedSameAxis ==
    /\ returned.op = "add"
    /\ Len(returned.other[1].mz) = Len(arrays.mz)
    /\ returned.other[1].mz = arrays.mz

\* C12: for a and b of the same length and with the identical m/z axis,
\* a + b equals b + a, has that m/z axis and the elementwise sum of the two
\* intensity arrays, and the addition leaves the operand unmodified.
C12_AddCommutes ==
    /\ [](AddedSameAxis =>
            LET b == returned.other[1]
                sum == returned.ret[1]
                swapped == raw_add(b, arrays)
            IN  /\ raw_eq(sum, ArraysOperand(swapped)) = [raised |-> "", ret |-> Some(TRUE)]
                /\ sum.mz = arrays.mz
                /\ Len(sum.intensity) = Len(arrays.intensity)
                /\ \A i \in 1..Len(arrays.intensity) :
                    sum.intensity[i] = arrays.intensity[i] + b.intensity[i])
    /\ [][returned'.op = "add" => arrays' = arrays]_vars

\* C12 witness: two points on an identical axis with different intensity
\* arrays were added.
C12_Witness ==
    /\ AddedSameAxis
    /\ Len(arrays.mz) = 2
    /\ returned.other[1].intensity # arrays.intensity
    /\ returned.ret[1].intensity[1] = arrays.intensity[1] + returned.other[1].intensity[1]

\* C13: == with an operand that is not a RawDataArrays (None, a number) or
\* with an instance of a different length yields false and does not raise.
C13_UnequalNeverRaises ==
    (/\ returned.op = "eq"
     /\ \/ returned.other[1].kind # "arrays"
        \/ Len(returned.other[1].mz) # Len(arrays.mz))
    => (returned.raised = "" /\ returned.ret = Some(FALSE))

----------------------------------------------------------------------------
(* ScanBunch. A scan is its id, the precursor_scan_id of its precursor     *)
(* information (None for a scan without precursor information) and whether *)
(* it is the packed form of a scan.                                        *)

\* Most product scans of a group.
MaxProducts == 2

PrecursorScans ==
    {[id |-> "1", precursor_information |-> None, packed |-> FALSE]}

\* Product scans may repeat an id, and may name a precursor the group does
\* not hold.
ProductScans ==
    {[id |-> i, precursor_information |-> pi, packed |-> FALSE] :
        i \in {"1", "2", "3"}, pi \in {None, Some("1"), Some("7")}}

LookupIds == {"1", "2", "7"}

\* dict.__setitem__
Put(map, key, value) ==
    [k \in (DOMAIN map) \cup {key} |-> IF k = key THEN value ELSE map[k]]

\* Lines 51-52: the products enter the mapping in order, from the i-th on.
RECURSIVE put_products(_, _, _)
put_products(map, products, i) ==
    IF i > Len(products) THEN map
    ELSE put_products(Put(map, products[i].id, products[i]), products, i + 1)

id_map_of_SkipPrecursor(the_precursor, products) ==
    put_products(<< >>, products, 1)

\* Lines 48-52: the mapping __new__ builds, starting from the empty dict.
id_map_of(the_precursor, products) ==
    put_products(IF the_precursor # None
                 THEN Put(<< >>, the_precursor[1].id, the_precursor[1])
                 ELSE << >>,
                 products, 1)

\* ScanBunch.__new__
new_bunch(the_precursor, products) ==
    [precursor |-> the_precursor, products |-> products,
     id_map |-> id_map_of(the_precursor, products)]

NoLookup == [op |-> "none", scan_id |-> None, scan |-> None,
             ret |-> None, raised |-> ""]

InitBunch ==
    /\ \E the_precursor \in {None} \cup {Some(p) : p \in PrecursorScans},
          n \in 0..MaxProducts :
        \E products \in [1..n -> ProductScans] :
            bunch = new_bunch(the_precursor, products)
    /\ lookup = NoLookup

get_scan_by_id_Get(b, scan_id) ==
    IF scan_id \in DOMAIN b.id_map
    THEN [raised |-> "", ret |-> Some(b.id_map[scan_id])]
    ELSE [raised |-> "", ret |-> None]

\* ScanBunch.get_scan_by_id: the scan, or the KeyError of the dict.
get_scan_by_id(b, scan_id) ==
    IF scan_id \in DOMAIN b.id_map
    THEN [raised |-> "", ret |-> Some(b.id_map[scan_id])]
    ELSE [raised |-> "KeyError", ret |-> None]

\* ScanBunch.precursor_for
precursor_for(b, the_scan) ==
    IF the_scan.precursor_information # None
    THEN get_scan_by_id(b, the_scan.precursor_information[1])
    ELSE [raised |-> "", ret |-> None]

\* Scan.pack: the packed form of a scan, carrying the same id.
scan_pack(the_scan) == [the_scan EXCEPT !.packed = TRUE]

\* ScanBunch.pack: the new group, or the AttributeError of None.pack().
pack(b) ==
    IF b.precursor = None
    THEN [raised |-> "AttributeError", ret |-> None]
    ELSE [raised |-> "",
          ret |-> Some(new_bunch(Some(scan_pack(b.precursor[1])),
                                 [i \in 1..Len(b.products) |->
                                    scan_pack(b.products[i])]))]

GetScanById ==
    /\ \E scan_id \in LookupIds :
        LET r == get_scan_by_id(bunch, scan_id)
        IN  lookup' = [NoLookup EXCEPT !.op = "get_scan_by_id",
                                       !.scan_id = Some(scan_id),
                                       !.ret = r.ret, !.raised = r.raised]
    /\ UNCHANGED <<bunch, linkVars, facadeVars, arrayVars>>

PrecursorFor ==
    /\ \E the_scan \in ProductScans \cup PrecursorScans :
        LET r == precursor_for(bunch, the_scan)
        IN  lookup' = [NoLookup EXCEPT !.op = "precursor_for",
                                       !.scan = Some(the_scan),
                                       !.ret = r.ret, !.raised = r.raised]
    /\ UNCHANGED <<bunch, linkVars, facadeVars, arrayVars>>

Pack ==
    /\ LET r == pack(bunch)
       IN  lookup' = [NoLookup EXCEPT !.op = "pack", !.ret = r.ret,
                                      !.raised = r.raised]
    /\ UNCHANGED <<bunch, linkVars, facadeVars, arrayVars>>

NextBunch ==
    \/ GetScanById
    \/ PrecursorFor
    \/ Pack

----------------------------------------------------------------------------
(* Properties of ScanBunch.                                                *)

\* The member scans of a group, one entry per position.
Members(b) ==
    (IF b.precursor = None THEN << >> ELSE <<b.precursor[1]>>) \o b.products

MemberIds(b) == {Members(b)[i].id : i \in 1..Len(Members(b))}

DistinctIds(b) ==
    \A i, j \in 1..Len(Members(b)) :
        i # j => Members(b)[i].id # Members(b)[j].id

\* C14 as stated: in every ScanBunch each member appears exactly once in the
\* id mapping, the mapping has as many entries as the group has scans, and no
\* two members share an id.
C14_OneEntryPerScan ==
    /\ \A i \in 1..Len(Members(bunch)) :
        Cardinality({k \in DOMAIN bunch.id_map :
                        bunch.id_map[k] = Members(bunch)[i]}) = 1
    /\ Cardinality(DOMAIN bunch.id_map) = Len(Members(bunch))
    /\ DistinctIds(bunch)

\* C14, amended: the keys of the id mapping are exactly the ids of the
\* members and each key maps to a member carrying that id; when no two
\* members share an id, each member appears exactly once in the mapping and
\* the mapping has as many entries as the group has scans.
C14_EntryPerDistinctId ==
    /\ DOMAIN bunch.id_map = MemberIds(bunch)
    /\ \A k \in DOMAIN bunch.id_map :
        \E i \in 1..Len(Members(bunch)) :
            bunch.id_map[k] = Members(bunch)[i] /\ Members(bunch)[i].id = k
    /\ DistinctIds(bunch) =>
        /\ \A i \in 1..Len(Members(bunch)) :
            Cardinality({k \in DOMAIN bunch.id_map :
                            bunch.id_map[k] = Members(bunch)[i]}) = 1
        /\ Cardinality(DOMAIN bunch.id_map) = Len(Members(bunch))

\* C14 witness: a precursor and two products, no two of them sharing an id.
C14_Witness ==
    /\ bunch.precursor # None
    /\ Len(bunch.products) = 2
    /\ DistinctIds(bunch)
    /\ Cardinality(DOMAIN bunch.id_map) = 3

\* C15: get_scan_by_id returns a member scan carrying the id asked for when
\* a member carries it and fails with a KeyError otherwise; precursor_for
\* returns None for a scan without precursor information and otherwise the
\* result of that lookup on the scan's precursor_scan_id.
C15_LookupById ==
    /\ lookup.op = "get_scan_by_id" =>
        IF lookup.scan_id[1] \in MemberIds(bunch)
        THEN /\ lookup.raised = ""
             /\ lookup.ret # None
             /\ lookup.ret[1].id = lookup.scan_id[1]
             /\ \E i \in 1..Len(Members(bunch)) : Members(bunch)[i] = lookup.ret[1]
        ELSE lookup.raised = "KeyError"
    /\ lookup.op = "precursor_for" =>
        IF lookup.scan[1].precursor_information = None
        THEN lookup.raised = "" /\ lookup.ret = None
        ELSE LET scan_id == lookup.scan[1].precursor_information[1]
             IN  IF scan_id \in MemberIds(bunch)
                 THEN /\ lookup.raised = ""
                      /\ lookup.ret # None
                      /\ lookup.ret[1].id = scan_id
                      /\ \E i \in 1..Len(Members(bunch)) :
                            Members(bunch)[i] = lookup.ret[1]
                 ELSE lookup.raised = "KeyError"

\* C15 witness: precursor_for on a scan whose precursor information names an
\* id no member carries failed with the lookup's KeyError.
C15_Witness ==
    /\ lookup.op = "precursor_for"
    /\ lookup.scan[1].precursor_information # None
    /\ lookup.scan[1].precursor_information[1] \notin MemberIds(bunch)
    /\ lookup.raised = "KeyError"
    /\ Len(bunch.products) > 0

\* C16: pack() of every ScanBunch, with a precursor or with precursor None,
\* returns a new ScanBunch whose precursor and products are the packed forms
\* of the original's, in the same order, with the id mapping rebuilt.
C16_PackEveryBunch ==
    lookup.op = "pack" =>
        /\ lookup.raised = ""
        /\ lookup.ret # None
        /\ LET packed == lookup.ret[1]
           IN  /\ packed.precursor =
                    (IF bunch.precursor = None THEN None
                     ELSE Some([bunch.precursor[1] EXCEPT !.packed = TRUE]))
               /\ Len(packed.products) = Len(bunch.products)
               /\ \A i \in 1..Len(bunch.products) :
                    packed.products[i] = [bunch.products[i] EXCEPT !.packed = TRUE]
               /\ DOMAIN packed.id_map = MemberIds(packed)
               /\ \A k \in DOMAIN packed.id_map :
                    packed.id_map[k].id = k /\ packed.id_map[k].packed

----------------------------------------------------------------------------
(* PrecursorInformation: the pickling protocol and equality. A mapping is  *)
(* the set of its <<key, value>> pairs.                                    *)

Annotations == {{}, {<<"activation", "hcd">>}}
Coisolations == {<< >>, <<"coisolated">>}
OtherMzs == {5002500, 5003000}

\* PrecursorInformation(mz, intensity, charge): every other argument at its
\* default.
new_link(mz, intensity, charge) ==
    [mz |-> mz, intensity |-> intensity, charge |-> charge,
     precursor_scan_id |-> None, source |-> None,
     extracted_neutral_mass |-> 0, extracted_charge |-> 0,
     extracted_intensity |-> 0, peak |-> None, extracted_peak |-> None,
     defaulted |-> FALSE, orphan |-> FALSE, product_scan_id |-> None,
     annotations |-> {}, coisolation |-> << >>]

InitLinkData ==
    /\ \E mz \in LinkMzs, intensity \in VendorIntensities,
          precursor_scan_id \in {None, Some("1")},
          product_scan_id \in {None, Some("2")},
          source \in {None, Some("source")},
          annotations \in Annotations, coisolation \in Coisolations :
            pinfo = [new_link(mz, intensity, 2) EXCEPT
                        !.precursor_scan_id = precursor_scan_id,
                        !.product_scan_id = product_scan_id,
                        !.source = source,
                        !.annotations = annotations,
                        !.coisolation = coisolation]
    /\ precursor_scan = None
    /\ product_scan = None
    /\ call = NoCall

getstate_KeepSource(p) ==
    <<p.mz, p.intensity, p.charge, p.precursor_scan_id, p.source,
      p.extracted_neutral_mass, p.extracted_charge, p.extracted_intensity,
      p.peak, p.extracted_peak, p.defaulted, p.orphan, p.product_scan_id,
      p.annotations, p.coisolation>>

\* PrecursorInformation.__getstate__
getstate(p) ==
    <<p.mz, p.intensity, p.charge, p.precursor_scan_id, None,
      p.extracted_neutral_mass, p.extracted_charge, p.extracted_intensity,
      p.peak, p.extracted_peak, p.defaulted, p.orphan, p.product_scan_id,
      p.annotations, p.coisolation>>

\* PrecursorInformation.__setstate__
setstate(p, state) ==
    LET first == [p EXCEPT !.mz = state[1], !.intensity = state[2],
                           !.charge = state[3], !.precursor_scan_id = state[4],
                           !.source = state[5],
                           !.extracted_neutral_mass = state[6],
                           !.extracted_charge = state[7],
                           !.extracted_intensity = state[8],
                           !.peak = state[9], !.extracted_peak = state[10],
                           !.defaulted = state[11], !.orphan = state[12],
                           !.product_scan_id = state[13]]
        second == IF Len(state) > 13
                  THEN [first EXCEPT !.annotations = state[14]] ELSE first
    IN  IF Len(state) > 14
        THEN [second EXCEPT !.coisolation = state[15]] ELSE second

\* Unpickling what __reduce__ returns: the class called on (0, 0, 0), then
\* __setstate__ on the new instance.
restore(state) == setstate(new_link(0, 0, 0), state)

\* pickle.loads(pickle.dumps(pinfo))
Pickle ==
    /\ call' = [NoCall EXCEPT !.op = "pickle",
                              !.restored = Some(restore(getstate(pinfo)))]
    /\ UNCHANGED <<pinfo, precursor_scan, product_scan, facadeVars, arrayVars, bunchVars>>

\* Unpickling a payload written before annotations and coisolation were
\* part of the state: the first 13 fields only.
RestoreOld ==
    /\ call' = [NoCall EXCEPT !.op = "restore_old",
                              !.restored = Some(restore(SubSeq(getstate(pinfo), 1, 13)))]
    /\ UNCHANGED <<pinfo, precursor_scan, product_scan, facadeVars, arrayVars, bunchVars>>

\* numpy.isclose(x, y) with rtol = 1e-5 and atol = 1e-8, in units of 1e-4:
\* |x - y| * 100000 <= 10 + |y|, divided through to stay within 32 bits.
link_isclose(x, y) == Abs(x - y) <= (10 + Abs(y)) \div 100000

\* The links == is called with, besides None.
OtherLinks ==
    {LET base == [new_link(mz, i, 2) EXCEPT !.precursor_scan_id = precursor_scan_id]
     IN  IF fit = None THEN base ELSE extract(base, fit[1], None) :
        mz \in OtherMzs, i \in VendorIntensities,
        precursor_scan_id \in {None, Some("1")},
        fit \in {None} \cup {Some(f) : f \in AllFits}}

link_eq_SkipCharge(p, other) ==
    IF other = None THEN FALSE
    ELSE IF p.precursor_scan_id # other[1].precursor_scan_id THEN FALSE
    ELSE IF p.product_scan_id # other[1].product_scan_id THEN FALSE
    ELSE LET self_fit == p.extracted_neutral_mass # 0
             other_fit == other[1].extracted_neutral_mass # 0
             self_mass == IF self_fit THEN extracted_mz(p) ELSE p.mz
             other_mass == IF other_fit THEN extracted_mz(other[1]) ELSE other[1].mz
         IN  link_isclose(self_mass, other_mass)

\* PrecursorInformation.__eq__
link_eq(p, other) ==
    IF other = None THEN FALSE
    ELSE IF p.precursor_scan_id # other[1].precursor_scan_id THEN FALSE
    ELSE IF p.product_scan_id # other[1].product_scan_id THEN FALSE
    ELSE LET self_fit == p.extracted_neutral_mass # 0
             other_fit == other[1].extracted_neutral_mass # 0
             self_mass == IF self_fit THEN extracted_mz(p) ELSE p.mz
             other_mass == IF other_fit THEN extracted_mz(other[1]) ELSE other[1].mz
             self_charge == IF self_fit THEN p.extracted_charge ELSE p.charge
             other_charge == IF other_fit THEN other[1].extracted_charge
                             ELSE other[1].charge
         IN  IF ~link_isclose(self_mass, other_mass) THEN FALSE
             ELSE IF self_charge # other_charge THEN FALSE
             ELSE TRUE

LinkEq ==
    /\ \E other \in {None} \cup {Some(o) : o \in OtherLinks} :
        call' = [NoCall EXCEPT !.op = "eq", !.other = other,
                               !.ret_ok = link_eq(pinfo, other)]
    /\ UNCHANGED <<pinfo, precursor_scan, product_scan, facadeVars, arrayVars, bunchVars>>

NextLinkData ==
    \/ Extract
    \/ Default
    \/ Pickle
    \/ RestoreOld
    \/ LinkEq

----------------------------------------------------------------------------
(* Properties of the pickling protocol and of equality.                    *)

\* C17: the link restored from a pickled link has source None and every
\* other attribute equal to the original's; the link restored from a payload
\* of the first 13 fields has an empty annotations mapping and an empty
\* coisolation sequence.
C17_RestoredEqualsOriginal ==
    /\ call.op = "pickle" =>
        /\ call.restored[1].source = None
        /\ [call.restored[1] EXCEPT !.source = pinfo.source] = pinfo
    /\ call.op = "restore_old" =>
        /\ call.restored[1].source = None
        /\ call.restored[1].annotations = {}
        /\ call.restored[1].coisolation = << >>
        /\ [call.restored[1] EXCEPT !.source = pinfo.source,
                                    !.annotations = pinfo.annotations,
                                    !.coisolation = pinfo.coisolation] = pinfo

\* C17 witness: a bound link with extracted values, annotations and a
\* coisolation entry was pickled and restored.
C17_Witness ==
    /\ call.op = "pickle"
    /\ pinfo.source # None
    /\ pinfo.extracted_neutral_mass # 0
    /\ pinfo.annotations # {}
    /\ pinfo.coisolation # << >>
    /\ call.restored[1].annotations = pinfo.annotations

\* A link has a fit when its extracted neutral mass is not zero.
HasFit(p) == p.extracted_neutral_mass # 0

IdsMatch(p, q) ==
    /\ p.precursor_scan_id = q.precursor_scan_id
    /\ p.product_scan_id = q.product_scan_id

\* C19 as stated: two links are equal exactly when their scan ids match and
\* either both have a fit and their extracted m/z and extracted charge
\* agree, or neither has and their vendor m/z and charge agree; a link with
\* a fit and a link without one are never equal.
C19_EqualBothOrNeither ==
    (call.op = "eq" /\ call.other # None) =>
        LET q == call.other[1]
        IN  call.ret_ok <=>
                /\ IdsMatch(pinfo, q)
                /\ \/ /\ HasFit(pinfo) /\ HasFit(q)
                      /\ link_isclose(extracted_mz(pinfo), extracted_mz(q))
                      /\ pinfo.extracted_charge = q.extracted_charge
                   \/ /\ ~HasFit(pinfo) /\ ~HasFit(q)
                      /\ link_isclose(pinfo.mz, q.mz)
                      /\ pinfo.charge = q.charge

\* The m/z and the charge == compares a link by: the extracted ones of a
\* link with a fit, the vendor ones otherwise.
ComparedMz(p) ==
    IF HasFit(p)
    THEN (IF p.extracted_charge = ChargeNotProvided
          THEN p.mz + PROTON
          ELSE (p.extracted_neutral_mass + (p.extracted_charge * PROTON))
                    \div Abs(p.extracted_charge))
    ELSE p.mz

ComparedCharge(p) == IF HasFit(p) THEN p.extracted_charge ELSE p.charge

\* C19, amended: two links are equal exactly when their scan ids match, the
\* m/z each is compared by are close and the charges each is compared by are
\* equal, each link taking its extracted values if it has a fit and its
\* vendor values otherwise; a link is never equal to None.
C19_EqualByComparedValues ==
    call.op = "eq" =>
        IF call.other = None THEN ~call.ret_ok
        ELSE LET q == call.other[1]
             IN  call.ret_ok <=>
                    /\ IdsMatch(pinfo, q)
                    /\ Abs(ComparedMz(pinfo) - ComparedMz(q))
                            <= (10 + Abs(ComparedMz(q))) \div 100000
                    /\ ComparedCharge(pinfo) = ComparedCharge(q)

\* C19 witness: a link with a fit compared equal to a link without one.
C19_Witness ==
    /\ call.op = "eq" /\ call.other # None
    /\ HasFit(pinfo) /\ ~HasFit(call.other[1])
    /\ call.ret_ok

----------------------------------------------------------------------------
(* PrecursorInformation.correct_mz. A peak of the precursor scan is its    *)
(* m/z; peak_intensity gives its intensity.                                *)

\* 5002505 lies within 2e-5 (relative) of the vendor m/z 5002500.
CorrectPeakMzs == {5002505, 5003000, 5003500}

peak_intensity(p) ==
    CASE p = 5002505 -> 900
      [] p = 5003000 -> 300
      [] OTHER -> 700

\* No window, an empty one, one spanning the vendor m/z, one holding the two
\* other peaks only, and one holding no peak.
IsolationWindows ==
    {None,
     Some([lower_bound |-> 5002500, upper_bound |-> 5002500]),
     Some([lower_bound |-> 5002000, upper_bound |-> 5003100]),
     Some([lower_bound |-> 5002900, upper_bound |-> 5003600]),
     Some([lower_bound |-> 5006000, upper_bound |-> 5007000])}

\* The ids under which the bound source holds the product scan.
ProductScanIds == {"2"}

\* IsolationWindow.is_empty: a window of no width.
is_empty(window) == window.lower_bound = window.upper_bound

\* IsolationWindow.spans
spans(window, mz) == window.lower_bound <= mz /\ mz <= window.upper_bound

\* PeakSet.between: the peaks with m/z from lo to hi.
between(peaks, lo, hi) == {p \in peaks : lo <= p /\ p <= hi}

most_intense_Lowest(region) ==
    CHOOSE p \in region : \A r \in region : p <= r

\* Line 814: max(region, key=intensity), the first of the most intense peaks
\* in ascending m/z.
most_intense(region) ==
    CHOOSE p \in region :
        \A r \in region :
            \/ peak_intensity(p) > peak_intensity(r)
            \/ (peak_intensity(p) = peak_intensity(r) /\ p <= r)

\* PrecursorInformation.product: the scan, None, or the AttributeError of
\* None.get_scan_by_id on a link no source is bound to.
product(p, the_scan) ==
    IF p.product_scan_id = None
    THEN [raised |-> "", scan |-> None]
    ELSE IF p.source = None
         THEN [raised |-> "AttributeError", scan |-> None]
         ELSE [raised |-> "",
               scan |-> IF p.product_scan_id[1] \in ProductScanIds
                        THEN Some(the_scan) ELSE None]

InitCorrect ==
    /\ \E mz \in LinkMzs, intensity \in VendorIntensities,
          precursor_scan_id \in {None} \cup {Some(i) : i \in ScanIds},
          product_scan_id \in {None, Some("2")},
          source \in {None, Some("source")} :
            pinfo = [new_link(mz, intensity, 2) EXCEPT
                        !.precursor_scan_id = precursor_scan_id,
                        !.product_scan_id = product_scan_id,
                        !.source = source]
    /\ \E peak_set \in {None} \cup {Some(ps) : ps \in SUBSET CorrectPeakMzs} :
            precursor_scan = [peak_set |-> peak_set, polarity |-> 1]
    /\ \E isolation_window \in IsolationWindows :
            product_scan = [isolation_window |-> isolation_window]
    /\ call = NoCall

\* PrecursorInformation.correct_mz(enforce_isolation_window=enforce), with
\* the default error_tolerance of 2e-5. picked is what pick_peaks() leaves
\* as the peak set of a scan that had none.
CorrectMz ==
    /\ UNCHANGED <<product_scan, facadeVars, arrayVars, bunchVars>>
    /\ \E enforce \in BOOLEAN,
          picked \in (IF precursor_scan.peak_set = None
                      THEN SUBSET CorrectPeakMzs ELSE {{}}) :
        LET base == [NoCall EXCEPT !.op = "correct_mz", !.enforce = enforce,
                                   !.nearest_mz = pinfo.mz, !.ret = "None"]
            looked == precursor(pinfo, precursor_scan)
        IN  IF looked.raised # ""
            THEN /\ call' = [base EXCEPT !.ret = "raise", !.raised = looked.raised]
                 /\ UNCHANGED <<pinfo, precursor_scan>>
            ELSE IF looked.scan = None
            THEN /\ call' = base
                 /\ UNCHANGED <<pinfo, precursor_scan>>
            ELSE
                LET peaks == IF precursor_scan.peak_set = None THEN picked
                             ELSE precursor_scan.peak_set[1]
                    peak == has_peak(peaks, pinfo.mz, 2, 100000)
                    nearest == IF peak # None THEN peak[1] ELSE pinfo.mz
                    product_scan_ == product(pinfo, product_scan)
                    isolation_window ==
                        IF enforce /\ pinfo.product_scan_id # None
                        THEN (IF product_scan_.scan # None
                              THEN product_scan_.scan[1].isolation_window
                              ELSE None)
                        ELSE None
                    region ==
                        IF /\ isolation_window # None
                           /\ ~is_empty(isolation_window[1])
                           /\ ~spans(isolation_window[1], nearest)
                        THEN between(peaks, isolation_window[1].lower_bound,
                                     isolation_window[1].upper_bound)
                        ELSE {}
                IN  /\ precursor_scan' = [precursor_scan EXCEPT !.peak_set = Some(peaks)]
                    /\ pinfo' = [pinfo EXCEPT !.mz = IF region # {}
                                                     THEN most_intense(region)
                                                     ELSE nearest]
                    /\ call' = [base EXCEPT !.resolved = TRUE, !.ref_peak = peak,
                                            !.nearest_mz = nearest]

NextCorrect ==
    \/ CorrectMz

----------------------------------------------------------------------------
(* Properties of PrecursorInformation.correct_mz.                          *)

\* The last call was correct_mz with enforce_isolation_window set, on a link
\* whose precursor scan resolved and whose product scan has a non-empty
\* isolation window, and the m/z after the nearest-peak update lay outside
\* that window.
EnforcedOutside ==
    /\ call.op = "correct_mz" /\ call.enforce /\ call.resolved
    /\ pinfo.product_scan_id # None
    /\ pinfo.product_scan_id[1] \in ProductScanIds
    /\ product_scan.isolation_window # None
    /\ product_scan.isolation_window[1].lower_bound
            # product_scan.isolation_window[1].upper_bound
    /\ \/ call.nearest_mz < product_scan.isolation_window[1].lower_bound
       \/ call.nearest_mz > product_scan.isolation_window[1].upper_bound

\* The precursor peaks within the bounds of the product scan's window.
PeaksInWindow ==
    {p \in precursor_scan.peak_set[1] :
        /\ product_scan.isolation_window[1].lower_bound <= p
        /\ p <= product_scan.isolation_window[1].upper_bound}

\* C18 as stated: whenever the m/z after the nearest-peak update lies
\* outside the non-empty isolation window, on return mz is the m/z of the
\* most intense precursor peak within the window bounds.
C18_ReselectsMostIntense ==
    EnforcedOutside =>
        /\ pinfo.mz \in PeaksInWindow
        /\ \A r \in PeaksInWindow : peak_intensity(pinfo.mz) >= peak_intensity(r)

\* C18, amended: ... on return mz is the m/z of the most intense precursor
\* peak within the window bounds if the precursor scan holds a peak within
\* them, and is the m/z the nearest-peak update left, outside the window, if
\* it holds none.
C18_ReselectsIfPeakInWindow ==
    EnforcedOutside =>
        IF PeaksInWindow # {}
        THEN /\ pinfo.mz \in PeaksInWindow
             /\ \A r \in PeaksInWindow : peak_intensity(pinfo.mz) >= peak_intensity(r)
        ELSE pinfo.mz = call.nearest_mz

\* C18 witness: the nearest-peak update moved mz to a peak outside the
\* window, the window holds two peaks, and mz was re-selected among them.
C18_Witness ==
    /\ EnforcedOutside
    /\ call.ref_peak # None
    /\ Cardinality(PeaksInWindow) = 2
    /\ pinfo.mz \in PeaksInWindow
    /\ pinfo.mz # call.nearest_mz

----------------------------------------------------------------------------
(* The specifications: one per part, the other parts idle.                 *)

IdleLink ==
    pinfo = None /\ precursor_scan = None /\ product_scan = None /\ call = None
IdleFacade == scan = None /\ facades = {} /\ outcome = None
IdleArrays == arrays = None /\ found = None /\ returned = None /\ frame = None
IdleBunch == bunch = None /\ lookup = None

InitL ==
    InitLink /\ IdleFacade /\ IdleArrays /\ IdleBunch

SpecLink == InitL /\ [][NextLink]_vars

InitF ==
    InitFacade /\ IdleLink /\ IdleArrays /\ IdleBunch

SpecFacade == InitF /\ [][NextFacade]_vars

InitA ==
    InitArrays /\ IdleLink /\ IdleFacade /\ IdleBunch

SpecArrays == InitA /\ [][NextArrays]_vars

InitD ==
    InitLinkData /\ IdleFacade /\ IdleArrays /\ IdleBunch

SpecLinkData == InitD /\ [][NextLinkData]_vars

InitC ==
    InitCorrect /\ IdleFacade /\ IdleArrays /\ IdleBunch

SpecCorrect == InitC /\ [][NextCorrect]_vars

InitB ==
    InitBunch /\ IdleLink /\ IdleFacade /\ IdleArrays

SpecBunch == InitB /\ [][NextBunch]_vars

InitS ==
    InitSearch /\ IdleLink /\ IdleFacade /\ IdleBunch

SpecSearch == InitS /\ [][NextSearch]_vars /\ WF_vars(Running)

InitR ==
    InitRaw /\ IdleLink /\ IdleFacade /\ IdleBunch

SpecRaw == InitR /\ [][NextRaw]_vars

====
